---- MODULE Spec2Model ----
(***************************************************************************)
(* A model of sflz4.h, a single file C library for the LZ4 block format.   *)
(*                                                                         *)
(* Buffers are sequences of bytes (0..255).  C indices are 0-based, and a  *)
(* pointer is modelled by its distance from the start of its buffer:       *)
(*   src_pos = src_ptr - (original src_ptr),  src_len = Len(src) - src_pos *)
(*   dst_pos = dst_ptr - original_dst_ptr,    dst_len = Len(dst) - dst_pos *)
(* A uint32_t that sflz4_private_peek_u32le loads is kept as its four      *)
(* bytes <<b0, b1, b2, b3>> (least significant first), so that values at   *)
(* or above 2^31 stay exact; the hash multiplies them modulo 2^32.         *)
(***************************************************************************)
EXTENDS Integers, Sequences, FiniteSets

VARIABLES enc, dec, siz

vars == <<enc, dec, siz>>

\* ---------------------------------------------------------------- Bounds

\* Every byte sequence over DecBytes up to this length is a decoder input,
MaxBlockLen == 4

\* with every destination length up to this one.
MaxDstLen == 5

\* Every sequence over two byte values up to this length is an encoder input.
MaxSrcLen == 12

\* Every length up to this one is given to the length checks.
MaxSizeLen == 20

\* -------------------------------------------------------- Status Messages

NULL == "NULL"

sflz4_status_message__error_dst_is_too_short == "#sflz4: dst is too short"

sflz4_status_message__error_invalid_data == "#sflz4: invalid data"

sflz4_status_message__error_src_is_too_long == "#sflz4: src is too long"

\* ------------------------------------------------------------- LZ4 Decode

SFLZ4_LZ4_BLOCK_DECODE_MAX_INCL_SRC_LEN == 16777215

Max(a, b) == IF a > b THEN a ELSE b

\* A C loop: Step is one evaluation of the loop's condition and, when it
\* holds, one pass of its body; s.done says that the loop has been left.
\* Repeat runs Step until then, and at most n times (n is chosen at or above
\* the number of passes the loop can make).  The passes run in order, the
\* first half before the second, so only the nesting depth is halved.
RECURSIVE Repeat(_, _, _)
Repeat(Step(_), s, n) ==
  IF s.done \/ n <= 0 THEN s
  ELSE IF n = 1 THEN Step(s)
  ELSE LET half == Repeat(Step, s, n \div 2)
       IN  Repeat(Step, half, n - (n \div 2))

\* src_ptr[i]; a read at or past the end of src is outside the buffer (the
\* value is then unspecified, 0 stands for it and src_hi records the index).
SrcAt(src, i) == IF i >= 0 /\ i < Len(src) THEN src[i + 1] ELSE 0

\* The state of one sflz4_block_decode call before its first statement: dst
\* is the destination buffer (dst_len = Len(dst)), src the source buffer and
\* src_len the length passed with it (a call that src_len makes return at
\* line 202 reads no byte of src, and src is then left empty).
\* token, literal_len, copy_off, copy_len are the C locals of the loop body;
\* tok_at, lit_done, copied, copy_at locate the current sequence; src_hi and
\* dst_hi are one past the highest index read from src and written to dst and
\* copy_rd_ok says that every match-copy read was of a byte written earlier.
DecodeCall(dst, src, src_len) ==
  [pc |-> "begin", src |-> src, src_len |-> src_len, src_pos |-> 0, dst |-> dst, dst_pos |-> 0,
   status |-> NULL, value |-> 0,
   token |-> 0, literal_len |-> 0, copy_off |-> 0, copy_len |-> 0,
   tok_at |-> 0, lit_done |-> FALSE, copied |-> FALSE, copy_at |-> 0,
   src_hi |-> 0, dst_hi |-> 0, copy_rd_ok |-> TRUE, done |-> FALSE]

\* return result, with result.status_message = msg and result.value = 0.
DecodeFail(d, msg) == [d EXCEPT !.pc = "done", !.status = msg, !.value = 0]

\* Lines 200-205: the length ceiling.
DecodeEnter(d) ==
  IF d.src_len > SFLZ4_LZ4_BLOCK_DECODE_MAX_INCL_SRC_LEN
    THEN DecodeFail(d, sflz4_status_message__error_src_is_too_long)
    ELSE [d EXCEPT !.pc = "loop"]

\* The extension loop, while (1) { if (src_len == 0) fail; s = *src_ptr++;
\* len += s; if (s != 255) break; }: pos is the source position, acc the
\* length so far.  ok is FALSE when the source ran out.
RECURSIVE ReadLenExtension(_, _, _, _)
ReadLenExtension(src, src_len, pos, acc) ==
  IF src_len - pos = 0
    THEN [ok |-> FALSE, pos |-> pos, len |-> acc]
    ELSE LET s == SrcAt(src, pos)
         IN  IF s # 255
               THEN [ok |-> TRUE, pos |-> pos + 1, len |-> acc + s]
               ELSE ReadLenExtension(src, src_len, pos + 1, acc + s)

\* memcpy(dst_ptr, src_ptr, n): dst[at .. at+n) := src[from .. from+n).
\* A byte that falls outside dst is not stored in the model.
Memcpy(dst, at, src, from, n) ==
  [i \in 1..Len(dst) |->
     IF i - 1 >= at /\ i - 1 < at + n THEN SrcAt(src, from + (i - 1 - at))
     ELSE dst[i]]

\* dst_ptr[i] for the match copy; in range only for 0 <= i < Len(dst).
DstAt(dst, i) == IF i >= 0 /\ i < Len(dst) THEN dst[i + 1] ELSE 0

DstPut(dst, i, b) ==
  IF i >= 0 /\ i < Len(dst) THEN [dst EXCEPT ![i + 1] = b] ELSE dst

\* Lines 277-279: one pass of for (from = dst_ptr - copy_off; copy_len > 0;
\* copy_len--) *dst_ptr++ = *from++.  ok records that the byte read was at
\* an index in 0 .. dst_ptr - 1.
CopyByte(c) ==
  IF c.copy_len > 0
    THEN [c EXCEPT !.dst = DstPut(c.dst, c.dst_pos, DstAt(c.dst, c.from)),
                   !.dst_pos = c.dst_pos + 1, !.from = c.from + 1,
                   !.copy_len = c.copy_len - 1,
                   !.ok = c.ok /\ c.from >= 0 /\ c.from < c.dst_pos]
    ELSE [c EXCEPT !.done = TRUE]

\* CopyForward as a bulk copy that reads the bytes as they were before it.
CopyForward_Bulk(dst, dst_pos, from, copy_len) ==
  [dst |-> [i \in 1..Len(dst) |->
              IF i - 1 >= dst_pos /\ i - 1 < dst_pos + copy_len
                THEN DstAt(dst, from + (i - 1 - dst_pos))
                ELSE dst[i]],
   dst_pos |-> dst_pos + copy_len, from |-> from + copy_len, copy_len |-> 0,
   ok |-> from >= 0 /\ (copy_len = 0 \/ from < dst_pos), done |-> TRUE]

\* The whole loop: copy_len bytes, one at a time in forward order.
CopyForward(dst, dst_pos, from, copy_len) ==
  Repeat(CopyByte, [dst |-> dst, dst_pos |-> dst_pos, from |-> from,
                    copy_len |-> copy_len, ok |-> TRUE, done |-> FALSE],
         copy_len + 1)

\* LiteralsStatus with the two checks in the other order.
LiteralsStatus_DstFirst(literal_len, src_len, dst_len) ==
  IF literal_len > dst_len THEN sflz4_status_message__error_dst_is_too_short
  ELSE IF literal_len > src_len THEN sflz4_status_message__error_invalid_data
  ELSE NULL

\* LiteralsStatus refusing a literal run that fills the destination exactly.
LiteralsStatus_OffByOne(literal_len, src_len, dst_len) ==
  IF literal_len > src_len THEN sflz4_status_message__error_invalid_data
  ELSE IF literal_len >= dst_len
    THEN sflz4_status_message__error_dst_is_too_short
  ELSE NULL

\* Lines 229-234: the two checks before the literals are copied; NULL when
\* both pass.
LiteralsStatus(literal_len, src_len, dst_len) ==
  IF literal_len > src_len THEN sflz4_status_message__error_invalid_data
  ELSE IF literal_len > dst_len
    THEN sflz4_status_message__error_dst_is_too_short
  ELSE NULL

\* OffsetIsInvalid without the comparison with the bytes written so far.
OffsetIsInvalid_ZeroOnly(copy_off, dst_pos) == copy_off = 0

\* OffsetIsInvalid without the comparison with zero.
OffsetIsInvalid_FarOnly(copy_off, dst_pos) == copy_off > dst_pos

\* Lines 252-253: (copy_off == 0) || (copy_off > dst_ptr - original_dst_ptr).
OffsetIsInvalid(copy_off, dst_pos) == (copy_off = 0) \/ (copy_off > dst_pos)

\* Lines 210-244: the token and the literals of one sequence.
DecodeLiterals(d) ==
  LET token == SrcAt(d.src, d.src_pos)
      p1 == d.src_pos + 1
      nibble == token \div 16
      ext == IF nibble = 15 THEN ReadLenExtension(d.src, d.src_len, p1, nibble)
             ELSE [ok |-> TRUE, pos |-> p1, len |-> nibble]
      literal_len == ext.len
      src_len == d.src_len - ext.pos
      dst_len == Len(d.dst) - d.dst_pos
      d0 == [d EXCEPT !.token = token, !.tok_at = d.src_pos,
                      !.literal_len = literal_len, !.src_pos = ext.pos,
                      !.src_hi = Max(d.src_hi, ext.pos),
                      !.lit_done = FALSE, !.copied = FALSE]
  IN  IF nibble = 0 THEN [d0 EXCEPT !.lit_done = TRUE]
      ELSE IF ~ext.ok
        THEN DecodeFail(d0, sflz4_status_message__error_invalid_data)
      ELSE IF LiteralsStatus(literal_len, src_len, dst_len) # NULL
        THEN DecodeFail(d0, LiteralsStatus(literal_len, src_len, dst_len))
      ELSE LET d1 == [d0 EXCEPT
                        !.dst = Memcpy(d.dst, d.dst_pos, d.src, ext.pos,
                                       literal_len),
                        !.dst_pos = d.dst_pos + literal_len,
                        !.src_pos = ext.pos + literal_len,
                        !.src_hi = Max(d.src_hi, ext.pos + literal_len),
                        !.dst_hi = Max(d.dst_hi, d.dst_pos + literal_len),
                        !.lit_done = TRUE]
           IN  IF d.src_len - d1.src_pos = 0
                 THEN [d1 EXCEPT !.pc = "done", !.value = d1.dst_pos]
                 ELSE d1

\* Lines 246-279: the offset, the length and the copy of one match.
DecodeMatch(d) ==
  IF d.src_len - d.src_pos < 2
    THEN DecodeFail(d, sflz4_status_message__error_invalid_data)
    ELSE
  LET copy_off == SrcAt(d.src, d.src_pos) + 256 * SrcAt(d.src, d.src_pos + 1)
      p2 == d.src_pos + 2
      d0 == [d EXCEPT !.copy_off = copy_off, !.src_pos = p2,
                      !.src_hi = Max(d.src_hi, p2)]
  IN  IF OffsetIsInvalid(copy_off, d.dst_pos)
        THEN DecodeFail(d0, sflz4_status_message__error_invalid_data)
        ELSE
  LET base == (d.token % 16) + 4
      ext == IF base = 19 THEN ReadLenExtension(d.src, d.src_len, p2, base)
             ELSE [ok |-> TRUE, pos |-> p2, len |-> base]
      copy_len == ext.len
      d1 == [d0 EXCEPT !.copy_len = copy_len, !.src_pos = ext.pos,
                       !.src_hi = Max(d.src_hi, ext.pos)]
  IN  IF ~ext.ok
        THEN DecodeFail(d1, sflz4_status_message__error_invalid_data)
      ELSE IF Len(d.dst) - d.dst_pos < copy_len
        THEN DecodeFail(d1, sflz4_status_message__error_dst_is_too_short)
      ELSE LET c == CopyForward(d.dst, d.dst_pos, d.dst_pos - copy_off,
                                copy_len)
           IN  [d1 EXCEPT !.dst = c.dst, !.dst_pos = d.dst_pos + copy_len,
                          !.dst_hi = Max(d.dst_hi, d.dst_pos + copy_len),
                          !.copy_rd_ok = d.copy_rd_ok /\ c.ok,
                          !.copied = TRUE, !.copy_at = d.dst_pos]

\* Lines 209-284: one evaluation of the loop condition and, when it holds,
\* one iteration of while (src_len > 0); when it fails, fail_invalid_data.
DecodeSequence(d) ==
  IF ~(d.src_len - d.src_pos > 0)
    THEN DecodeFail([d EXCEPT !.lit_done = FALSE, !.copied = FALSE],
                    sflz4_status_message__error_invalid_data)
    ELSE LET a == DecodeLiterals(d)
         IN  IF a.pc = "done" THEN a ELSE DecodeMatch(a)

DecodeStep(d) ==
  IF d.pc = "done" THEN [d EXCEPT !.done = TRUE]
  ELSE IF d.pc = "begin" THEN DecodeEnter(d)
  ELSE DecodeSequence(d)

\* The call from entry to return: every pass but the last consumes a byte.
DecodeRun(d) == Repeat(DecodeStep, d, Len(d.src) + 3)

\* The whole call: the returned record and the destination buffer.
sflz4_block_decode(dst, src, src_len) ==
  LET d == DecodeRun(DecodeCall(dst, src, src_len))
  IN  [status_message |-> d.status, value |-> d.value, dst |-> d.dst]

\* ------------------------------------------------------------- LZ4 Encode

SFLZ4_LZ4_BLOCK_ENCODE_MAX_INCL_SRC_LEN == 2113929216

SFLZ4_HASH_TABLE_SHIFT == 12

\* sflz4_private_peek_u32le(p), p = src_ptr + i: the four bytes at i .. i+3,
\* least significant first.  Two loads are equal as uint32_t iff the tuples
\* are equal.
sflz4_private_peek_u32le(src, i) ==
  <<SrcAt(src, i), SrcAt(src, i + 1), SrcAt(src, i + 2), SrcAt(src, i + 3)>>

\* (x * 2654435761u) >> (32 - SFLZ4_HASH_TABLE_SHIFT) in uint32_t arithmetic.  2654435761 is
\* 0x9E3779B1; the product is formed byte column by byte column, keeping the
\* low 32 bits r0..r3, and the top 12 of them are the hash.
sflz4_private_hash(x) ==
  LET c0 == x[1] * 177
      c1 == x[1] * 121 + x[2] * 177 + (c0 \div 256)
      c2 == x[1] * 55 + x[2] * 121 + x[3] * 177 + (c1 \div 256)
      c3 == x[1] * 158 + x[2] * 55 + x[3] * 121 + x[4] * 177 + (c2 \div 256)
      r2 == c2 % 256
      r3 == c3 % 256
  IN  (r3 * 256 + r2) \div (2 ^ (16 - SFLZ4_HASH_TABLE_SHIFT))

\* Lines 305-310: one pass of the loop that compares four bytes at a time.
\* p and q are source positions, n the bytes left before p_limit.
LcpWord(c) ==
  IF c.n >= 4 /\ sflz4_private_peek_u32le(c.src, c.p) =
                 sflz4_private_peek_u32le(c.src, c.q)
    THEN [c EXCEPT !.p = c.p + 4, !.q = c.q + 4, !.n = c.n - 4]
    ELSE [c EXCEPT !.done = TRUE]

\* Lines 311-315: one pass of the loop that compares one byte at a time.
LcpByte(c) ==
  IF c.n > 0 /\ SrcAt(c.src, c.p) = SrcAt(c.src, c.q)
    THEN [c EXCEPT !.p = c.p + 1, !.q = c.q + 1, !.n = c.n - 1]
    ELSE [c EXCEPT !.done = TRUE]

\* sflz4_private_longest_common_prefix comparing one byte past p_limit.
longest_common_prefix_OneMore(src, p, q, p_limit) ==
  LET c0 == [src |-> src, p |-> p, q |-> q, n |-> p_limit + 1 - p,
             done |-> FALSE]
      c1 == Repeat(LcpWord, c0, Len(src) + 1)
      c2 == Repeat(LcpByte, [c1 EXCEPT !.done = FALSE], Len(src) + 1)
  IN  c2.p - p

sflz4_private_longest_common_prefix(src, p, q, p_limit) ==
  LET c0 == [src |-> src, p |-> p, q |-> q, n |-> p_limit - p, done |-> FALSE]
      c1 == Repeat(LcpWord, c0, Len(src) + 1)
      c2 == Repeat(LcpByte, [c1 EXCEPT !.done = FALSE], Len(src) + 1)
  IN  c2.p - p

\* sflz4_block_encode_worst_case_dst_len refusing the ceiling itself.
worst_case_dst_len_Exclusive(src_len) ==
  IF src_len >= SFLZ4_LZ4_BLOCK_ENCODE_MAX_INCL_SRC_LEN
    THEN [status_message |-> sflz4_status_message__error_src_is_too_long,
          value |-> 0]
    ELSE [status_message |-> NULL, value |-> src_len + (src_len \div 255) + 16]

sflz4_block_encode_worst_case_dst_len(src_len) ==
  IF src_len > SFLZ4_LZ4_BLOCK_ENCODE_MAX_INCL_SRC_LEN
    THEN [status_message |-> sflz4_status_message__error_src_is_too_long,
          value |-> 0]
    ELSE [status_message |-> NULL, value |-> src_len + (src_len \div 255) + 16]

\* Lines 339-347 of sflz4_block_encode: the checks made before any byte is
\* read or written.  They use the two lengths only.
EncodeCheck(dst_len, src_len) ==
  LET result == sflz4_block_encode_worst_case_dst_len(src_len)
  IN  IF result.status_message # NULL THEN result
      ELSE IF result.value > dst_len
        THEN [status_message |-> sflz4_status_message__error_dst_is_too_short,
              value |-> 0]
      ELSE [status_message |-> NULL, value |-> 0]

\* The state of one sflz4_block_encode call before its first statement: src
\* is the source buffer and src_len, dst_len the two lengths passed (a call
\* that the lengths make return at line 341 or 345 touches neither buffer,
\* and src is then left empty).
\* out holds the bytes stored at dst_ptr[0 .. dp): the encoder stores to
\* *dp++ and to *token only, so dp - dst_ptr = Len(out) and token is an
\* index into out.  sp, literal_start and match are source positions.
\* hash_table is the array of the if (src_len > 12) block: it exists from
\* its declaration until control leaves the block, and is <<>> otherwise.
EncodeCall(dst_len, src, src_len) ==
  [pc |-> "begin", src |-> src, src_len |-> src_len, dst_len |-> dst_len, out |-> <<>>,
   sp |-> 0, literal_start |-> 0, match |-> 0, token |-> 0,
   hash_table |-> <<>>, status |-> NULL, value |-> 0, done |-> FALSE]

\* uint32_t hash_table[1 << SFLZ4_HASH_TABLE_SHIFT] = {0};
HashTableInit == [h \in 0..(2 ^ SFLZ4_HASH_TABLE_SHIFT - 1) |-> 0]

\* Lines 339-356.
EncodeEnter(e) ==
  LET result == EncodeCheck(e.dst_len, e.src_len)
  IN  IF result.status_message # NULL
        THEN [e EXCEPT !.pc = "done", !.status = result.status_message,
                       !.value = result.value]
      ELSE IF e.src_len > 12
        THEN [e EXCEPT !.pc = "search", !.hash_table = HashTableInit]
      ELSE [e EXCEPT !.pc = "final"]

\* ExtensionBytes with n -= 1 in place of n -= 255.
ExtensionBytes_ByOne(n) ==
  IF n >= 255 THEN [i \in 1..(n - 254) |-> 255] \o <<254>> ELSE <<n % 256>>

\* for (; n >= 255; n -= 255) *dp++ = 0xFF;  *dp++ = (uint8_t)n;
RECURSIVE ExtensionBytes(_)
ExtensionBytes(n) ==
  IF n >= 255 THEN <<255>> \o ExtensionBytes(n - 255) ELSE <<n % 256>>

\* LiteralLenBytes with the length in the token's low half.
LiteralLenBytes_NoShift(literal_len) ==
  IF literal_len < 15 THEN <<literal_len % 256>>
  ELSE <<240>> \o ExtensionBytes(literal_len - 15)

\* Lines 403-412 and 473-482: the token with the literal length in its high
\* half, and the extension bytes.
LiteralLenBytes(literal_len) ==
  IF literal_len < 15 THEN <<(literal_len * 16) % 256>>
  ELSE <<240>> \o ExtensionBytes(literal_len - 15)

\* src_ptr[from .. from + n), the source of memcpy(dp, literal_start, n).
SrcBytes(src, from, n) == [i \in 1..n |-> SrcAt(src, from + i - 1)]

\* a | b on bytes.
RECURSIVE BitOr(_, _)
BitOr(a, b) ==
  IF a = 0 THEN b
  ELSE IF b = 0 THEN a
  ELSE (IF a % 2 = 1 \/ b % 2 = 1 THEN 1 ELSE 0) + 2 * BitOr(a \div 2, b \div 2)

\* Lines 378-390: one pass of the do-while loop that looks for a match.
\* The loop is left with found = FALSE for goto final_literals, and with
\* found = TRUE when its condition fails.
ProbeOnce(f) ==
  LET sp == f.next_sp
      next_sp == f.next_sp + f.step
      step == f.step_counter \div 64
  IN  IF next_sp > f.final_literals_limit
        THEN [f EXCEPT !.sp = sp, !.done = TRUE]
        ELSE
  LET match == f.hash_table[f.next_hash]
      next_hash == sflz4_private_hash(sflz4_private_peek_u32le(f.src, next_sp))
      f1 == [f EXCEPT !.sp = sp, !.next_sp = next_sp, !.step = step,
                      !.step_counter = f.step_counter + 1, !.match = match,
                      !.next_hash = next_hash,
                      !.hash_table = [f.hash_table EXCEPT ![f.next_hash] = sp]]
  IN  IF (sp - match > 65535) \/ (sflz4_private_peek_u32le(f.src, sp) #
                                  sflz4_private_peek_u32le(f.src, match))
        THEN f1
        ELSE [f1 EXCEPT !.found = TRUE, !.done = TRUE]

\* Lines 368-390: the loop from its initial values.
FindMatch(src, src_len, hash_table, sp0) ==
  Repeat(ProbeOnce,
         [src |-> src, final_literals_limit |-> src_len - 11,
          hash_table |-> hash_table, sp |-> sp0, next_sp |-> sp0 + 1,
          next_hash |-> sflz4_private_hash(
                          sflz4_private_peek_u32le(src, sp0 + 1)),
          step |-> 1, step_counter |-> 64, match |-> 0,
          found |-> FALSE, done |-> FALSE],
         Len(src) + 1)

\* Lines 393-397: one pass of the loop that extends the match backwards.
StepBackwards(b) ==
  IF b.sp > b.literal_start /\ b.match > 0 /\
     SrcAt(b.src, b.sp - 1) = SrcAt(b.src, b.match - 1)
    THEN [b EXCEPT !.sp = b.sp - 1, !.match = b.match - 1]
    ELSE [b EXCEPT !.done = TRUE]

ExtendBackwards(src, sp, match, literal_start) ==
  Repeat(StepBackwards, [src |-> src, sp |-> sp, match |-> match,
                         literal_start |-> literal_start, done |-> FALSE],
         Len(src) + 1)

\* Lines 366-414: one pass of the outer while (1) up to the inner loop: find
\* a match, extend it backwards, store the token's literal half and the
\* literals.
EncodeSearch(e) ==
  LET f == FindMatch(e.src, e.src_len, e.hash_table, e.sp)
  IN  IF ~f.found
        THEN [e EXCEPT !.pc = "final", !.sp = f.sp, !.hash_table = <<>>]
        ELSE
  LET b == ExtendBackwards(e.src, f.sp, f.match, e.literal_start)
      literal_len == b.sp - e.literal_start
  IN  [e EXCEPT !.pc = "match", !.sp = b.sp, !.match = b.match,
                !.hash_table = f.hash_table, !.token = Len(e.out),
                !.out = e.out \o LiteralLenBytes(literal_len)
                              \o SrcBytes(e.src, e.literal_start, literal_len)]

\* Lines 416-466: one pass of the inner while (1): store the offset and the
\* match length, advance sp, and look for a match that follows immediately.
EncodeMatch(e) ==
  LET match_limit == e.src_len - 5
      final_literals_limit == e.src_len - 11
      copy_off == e.sp - e.match
      adj_copy_len == sflz4_private_longest_common_prefix(
                        e.src, 4 + e.sp, 4 + e.match, match_limit)
      out1 == e.out \o <<copy_off % 256, (copy_off \div 256) % 256>>
      out2 == IF adj_copy_len < 15
                THEN [out1 EXCEPT ![e.token + 1] = BitOr(@, adj_copy_len % 256)]
                ELSE [out1 EXCEPT ![e.token + 1] = BitOr(@, 15)]
                       \o ExtensionBytes(adj_copy_len - 15)
      sp == e.sp + 4 + adj_copy_len
      e1 == [e EXCEPT !.out = out2, !.sp = sp, !.literal_start = sp]
  IN  IF sp >= final_literals_limit
        THEN [e1 EXCEPT !.pc = "final", !.hash_table = <<>>]
      ELSE
  LET ht1 == [e.hash_table EXCEPT
               ![sflz4_private_hash(sflz4_private_peek_u32le(e.src, sp - 2))]
                  = sp - 2]
      h == sflz4_private_hash(sflz4_private_peek_u32le(e.src, sp))
      old_offset == ht1[h]
      new_offset == sp
      ht2 == [ht1 EXCEPT ![h] = new_offset]
      \* new_offset - old_offset is a uint32_t: a negative difference wraps
      \* to a value of at least 2^31.
      far == (new_offset - old_offset < 0) \/ (new_offset - old_offset > 65535)
      e2 == [e1 EXCEPT !.hash_table = ht2, !.match = old_offset]
  IN  IF far \/ (sflz4_private_peek_u32le(e.src, sp) #
                 sflz4_private_peek_u32le(e.src, old_offset))
        THEN [e2 EXCEPT !.pc = "search"]
        ELSE [e2 EXCEPT !.token = Len(out2), !.out = out2 \o <<0>>]

\* Lines 470-488: final_literals and the return.
EncodeFinal(e) ==
  LET final_literal_len == e.src_len - e.literal_start
      out == e.out \o LiteralLenBytes(final_literal_len)
                   \o SrcBytes(e.src, e.literal_start, final_literal_len)
  IN  [e EXCEPT !.pc = "done", !.out = out, !.value = Len(out)]

EncodeStep(e) ==
  IF e.pc = "done" THEN [e EXCEPT !.done = TRUE]
  ELSE IF e.pc = "begin" THEN EncodeEnter(e)
  ELSE IF e.pc = "search" THEN EncodeSearch(e)
  ELSE IF e.pc = "match" THEN EncodeMatch(e)
  ELSE EncodeFinal(e)

\* The call from entry to return: a search or a match pass that is not the
\* last one advances sp.
EncodeRun(e) == Repeat(EncodeStep, e, 2 * Len(e.src) + 4)

\* The whole call: the returned record and the bytes stored at dst_ptr.
sflz4_block_encode(dst_len, src, src_len) ==
  LET e == EncodeRun(EncodeCall(dst_len, src, src_len))
  IN  [status_message |-> e.status, value |-> e.value, out |-> e.out]

\* ----------------------------------------------------------------- Inputs

\* The content of a caller's destination buffer before a call.
InitialDst(dst_len) == [i \in 1..dst_len |-> 238]

AllSeqs(S, n) == UNION {[1..k -> S] : k \in 0..n}

Prefixes(s) == {SubSeq(s, 1, k) : k \in 0..Len(s)}

\* example.c, ssss_ptr: the 158 bytes that main encodes and decodes.
ssss == <<
    83, 104, 101, 32, 115, 101, 108, 108, 115, 32, 115, 101, 97, 32, 115, 104,
    101, 108, 108, 115, 32, 98, 121, 32, 116, 104, 101, 32, 115, 101, 97, 32,
    115, 104, 111, 114, 101, 46, 10, 84, 104, 101, 32, 115, 104, 101, 108, 108,
    115, 32, 115, 104, 101, 32, 115, 101, 108, 108, 115, 32, 97, 114, 101, 32,
    115, 117, 114, 101, 108, 121, 32, 115, 101, 97, 115, 104, 101, 108, 108, 115,
    46, 10, 83, 111, 32, 105, 102, 32, 115, 104, 101, 32, 115, 101, 108, 108,
    115, 32, 115, 104, 101, 108, 108, 115, 32, 111, 110, 32, 116, 104, 101, 32,
    115, 101, 97, 115, 104, 111, 114, 101, 44, 10, 73, 39, 109, 32, 115, 117,
    114, 101, 32, 115, 104, 101, 32, 115, 101, 108, 108, 115, 32, 115, 101, 97,
    115, 104, 111, 114, 101, 32, 115, 104, 101, 108, 108, 115, 46, 10>>

\* Bytes that depend on the position with no short period, modulo m.
Ramp(n, m) == [i \in 1..n |-> (i * i * 7 + (i \div 3)) % m]

\* The bytes 65 .. 65 + k - 1 repeated.
Periodic(n, k) == [i \in 1..n |-> 65 + (i % k)]

\* The concatenation of a sequence of sequences.
RECURSIVE Flatten(_)
Flatten(ws) == IF ws = <<>> THEN <<>> ELSE Head(ws) \o Flatten(Tail(ws))

\* Four-byte words; a source made of them repeats some and not others.
Words == {<<65, 65, 65, 65>>, <<65, 66, 65, 66>>, <<65, 66, 67, 68>>,
          <<66, 67, 68, 69>>}

\* The sources of the encoder: every sequence over two byte values up to
\* MaxSrcLen, every sequence of five or six words, the example's text, and
\* longer sources.  Among the longer ones are sources with no match (their
\* literal runs need extension bytes, and the search accelerates), runs of
\* one byte (their match lengths need extension bytes) and sources that
\* differ from a period here and there.
Sources ==
  AllSeqs({65, 66}, MaxSrcLen)
    \cup {Flatten(ws) : ws \in [1..5 -> Words] \cup [1..6 -> Words]}
    \cup {ssss}
    \cup {Ramp(n, m) : n \in {5, 12, 13, 20, 100, 300, 530}, m \in {4, 251}}
    \cup {Periodic(n, k) : n \in {13, 17, 40, 300, 600}, k \in {1, 2, 5}}
    \cup {Periodic(n, 3) \o Ramp(m, 7) \o Periodic(n, 3) :
            n \in {8, 20}, m \in {3, 12}}

\* n + n/255 + 16 for the lengths the model gives to the encoder.
WorstCase(n) == n + (n \div 255) + 16

\* A sequence of an LZ4 block with lit literal bytes, the offset off and the
\* match length mlen (at least 4).
SequenceBytes(lit, off, mlen) ==
  LET head == LiteralLenBytes(lit)
      low == IF mlen - 4 < 15 THEN mlen - 4 ELSE 15
  IN  <<head[1] + low>> \o Tail(head)
        \o [i \in 1..lit |-> 65 + ((i - 1) % 3)]
        \o <<off % 256, off \div 256>>
        \o (IF low = 15 THEN ExtensionBytes(mlen - 4 - 15) ELSE <<>>)

\* A final sequence: lit literal bytes and no match.
FinalBytes(lit) == LiteralLenBytes(lit) \o [i \in 1..lit |-> 97 + ((i - 1) % 3)]

\* Blocks of one or two sequences and a final one, each with the number of
\* bytes it decodes to when its offsets are valid.
OneSequence ==
  {[block |-> SequenceBytes(lit, off, mlen), len |-> lit + mlen] :
     lit \in {0, 1, 2, 15, 16}, off \in {0, 1, 2, 3},
     mlen \in {4, 5, 18, 19, 20}}
    \cup {[block |-> SequenceBytes(270, 1, 4), len |-> 274],
          [block |-> SequenceBytes(1, 1, 274), len |-> 275],
          [block |-> SequenceBytes(2, 2, 530), len |-> 532]}

TwoSequences ==
  {[block |-> a.block \o SequenceBytes(lit, off, 4), len |-> a.len + lit + 4] :
     a \in OneSequence, lit \in {0, 1}, off \in {1, 2}}

CraftedBlocks ==
  {[block |-> a.block \o FinalBytes(lit), len |-> a.len + lit] :
     a \in OneSequence \cup TwoSequences, lit \in {0, 1}}

\* The byte values of the short decoder inputs: tokens with and without
\* extended lengths, offsets, extension bytes and a literal.
DecBytes == {0, 1, 16, 31, 65, 240, 255}

\* The lengths given to sflz4_block_encode_worst_case_dst_len and, with a
\* dst_len, to the entry checks of sflz4_block_encode.
SizeLens ==
  (0..MaxSizeLen)
    \cup {254, 255, 256, 509, 510, 511, 65536, 16777215,
          SFLZ4_LZ4_BLOCK_ENCODE_MAX_INCL_SRC_LEN - 1,
          SFLZ4_LZ4_BLOCK_ENCODE_MAX_INCL_SRC_LEN,
          SFLZ4_LZ4_BLOCK_ENCODE_MAX_INCL_SRC_LEN + 1, 2147483647}

DstLensFor(n) ==
  {0, n, 2147483647} \cup
    (IF n <= SFLZ4_LZ4_BLOCK_ENCODE_MAX_INCL_SRC_LEN
       THEN {WorstCase(n) - 1, WorstCase(n), WorstCase(n) + 1} ELSE {})

\* ---------------------------------------------------------- Specifications

\* No call in progress.
NoEncode == [EncodeCall(0, <<>>, 0) EXCEPT !.pc = "idle"]

NoDecode == [DecodeCall(<<>>, <<>>, 0) EXCEPT !.pc = "idle"]

NoSize == [pc |-> "idle", status_message |-> NULL, value |-> 0]

\* sflz4_block_encode, one action per part of its body.
EncodeBegin ==
  /\ enc.pc = "begin"
  /\ enc' = EncodeEnter(enc)
  /\ UNCHANGED <<dec, siz>>

EncodeFind ==
  /\ enc.pc = "search"
  /\ enc' = EncodeSearch(enc)
  /\ UNCHANGED <<dec, siz>>

EncodeEmit ==
  /\ enc.pc = "match"
  /\ enc' = EncodeMatch(enc)
  /\ UNCHANGED <<dec, siz>>

EncodeEnd ==
  /\ enc.pc = "final"
  /\ enc' = EncodeFinal(enc)
  /\ UNCHANGED <<dec, siz>>

\* example.c: #define ENC_BUFFER_SIZE 1024, #define DEC_BUFFER_SIZE 1024.
ENC_BUFFER_SIZE == 1024

DEC_BUFFER_SIZE == 1024

\* uint8_t dec_buffer[DEC_BUFFER_SIZE]: a global, so every byte is 0.
dec_buffer == [i \in 1..DEC_BUFFER_SIZE |-> 0]

\* example.c, main, lines 69-79: after the sizing call, return when it failed
\* or when its value is over ENC_BUFFER_SIZE, and otherwise call
\* sflz4_block_encode(enc_buffer, ENC_BUFFER_SIZE, ssss_ptr, ssss_len).
MainEncode ==
  /\ siz.pc = "done" /\ enc.pc = "idle"
  /\ siz.status_message = NULL
  /\ ~(siz.value > ENC_BUFFER_SIZE)
  /\ enc' = EncodeCall(ENC_BUFFER_SIZE, enc.src, enc.src_len)
  /\ UNCHANGED <<dec, siz>>

\* example.c, main, lines 80-95: once the encoder has succeeded,
\* sflz4_block_decode(dec_buffer, DEC_BUFFER_SIZE, enc_buffer, enc_len).
MainDecode ==
  /\ siz.pc = "done"
  /\ enc.pc = "done" /\ enc.status = NULL
  /\ dec.pc = "idle"
  /\ dec' = DecodeCall(dec_buffer, enc.out, enc.value)
  /\ UNCHANGED <<enc, siz>>

\* A caller other than main that gives the encoder's output to the decoder:
\* the destination has exactly the source's length, or one byte more.
DecodeEncoded ==
  /\ siz.pc = "idle"
  /\ enc.pc = "done" /\ enc.status = NULL
  /\ dec.pc = "idle"
  /\ \E dst_len \in {enc.src_len, enc.src_len + 1} :
       dec' = DecodeCall(InitialDst(dst_len), enc.out, enc.value)
  /\ UNCHANGED <<enc, siz>>

\* sflz4_block_decode: its entry, and one pass of its loop.
DecodeBegin ==
  /\ dec.pc = "begin"
  /\ dec' = DecodeEnter(dec)
  /\ UNCHANGED <<enc, siz>>

DecodeLoop ==
  /\ dec.pc = "loop"
  /\ dec' = DecodeSequence(dec)
  /\ UNCHANGED <<enc, siz>>

\* sflz4_block_encode_worst_case_dst_len(src_len), for the encoder's src_len.
SizeWorstCase ==
  /\ siz.pc = "call"
  /\ LET result == sflz4_block_encode_worst_case_dst_len(enc.src_len)
     IN  siz' = [pc |-> "done", status_message |-> result.status_message,
                 value |-> result.value]
  /\ UNCHANGED <<enc, dec>>

\* example.c, main, lines 61-68: ssss_len = strlen(ssss_ptr), and the call of
\* sflz4_block_encode_worst_case_dst_len(ssss_len) is the next step; the
\* encoder has not been called yet.
InitMain ==
  /\ enc = [EncodeCall(ENC_BUFFER_SIZE, ssss, Len(ssss)) EXCEPT !.pc = "idle"]
  /\ dec = NoDecode
  /\ siz = [NoSize EXCEPT !.pc = "call"]

\* A caller other than main, at its call of sflz4_block_encode: any source,
\* and a destination one byte short of the worst case, exactly the worst
\* case, or one byte more.
InitCalls ==
  /\ \E src \in Sources, k \in {-1, 0, 1} :
       enc = EncodeCall(WorstCase(Len(src)) + k, src, Len(src))
  /\ dec = NoDecode
  /\ siz = NoSize

\* Encoding, then decoding what was encoded: as main does it, or as any
\* other caller of the two functions.
Init == InitMain \/ InitCalls

Next ==
  \/ SizeWorstCase
  \/ MainEncode
  \/ EncodeBegin
  \/ EncodeFind
  \/ EncodeEmit
  \/ EncodeEnd
  \/ MainDecode
  \/ DecodeEncoded
  \/ DecodeBegin
  \/ DecodeLoop

Spec == Init /\ [][Next]_vars

\* Decoding any block, well-formed or not: every short byte sequence with
\* every small destination, every crafted block and every truncation of it
\* with destinations around its decoded length, and calls whose src_len is
\* over the ceiling (they return before src is read).
InitDec ==
  /\ enc = NoEncode
  /\ \/ \E dst_len \in 0..MaxDstLen, src \in AllSeqs(DecBytes, MaxBlockLen) :
          dec = DecodeCall(InitialDst(dst_len), src, Len(src))
     \/ \E x \in CraftedBlocks, k \in {-1, 0, 1} :
          \E dst_len \in {0, 1, x.len + k}, n \in 0..Len(x.block) :
            dec = DecodeCall(InitialDst(dst_len), SubSeq(x.block, 1, n), n)
     \/ \E dst_len \in {0, 1}, n \in {16777216, 2147483647} :
          dec = DecodeCall(InitialDst(dst_len), <<>>, n)
  /\ siz = NoSize

NextDec ==
  \/ DecodeBegin
  \/ DecodeLoop

SpecDec == InitDec /\ [][NextDec]_vars

\* The length checks: the sizing helper, and the entry of the encoder (no
\* byte of src is read by either).
InitSize ==
  /\ \E n \in SizeLens : \E dst_len \in DstLensFor(n) :
       enc = EncodeCall(dst_len, <<>>, n)
  /\ dec = NoDecode
  /\ siz = [NoSize EXCEPT !.pc = "call"]

NextSize ==
  \/ SizeWorstCase
  \/ EncodeBegin

SpecSize == InitSize /\ [][NextSize]_vars

\* ------------------------------------------------- The LZ4 block format

\* The format of a block as the library's documentation points to it
\* (lz4_Block_format.md), read off the bytes alone, for stating what the
\* decoder has to answer.  A length field that starts at pos with the
\* token's nibble: the nibble, or 15 plus the bytes that follow, up to and
\* including the first one below 255.  ok is FALSE when the block ends first.
LengthField(src, pos, nibble) ==
  IF nibble < 15 THEN [ok |-> TRUE, next |-> pos, len |-> nibble]
  ELSE LET run == CHOOSE k \in 0..(Len(src) - pos) :
                    /\ \A i \in 1..k : src[pos + i] = 255
                    /\ (pos + k = Len(src) \/ src[pos + k + 1] # 255)
       IN  IF pos + run = Len(src)
             THEN [ok |-> FALSE, next |-> Len(src), len |-> 0]
             ELSE [ok |-> TRUE, next |-> pos + run + 1,
                   len |-> 15 + 255 * run + src[pos + run + 1]]

\* How the block src reads from position pos on, after `emitted` bytes of
\* output: kind names either the way it ends or the first rule it breaks,
\* and emitted counts the output bytes of what precedes that.
\*   "end"      the block ends after a literal run of one byte or more
\*   "end0"     the block ends after a literal run of no byte
\*   "empty"    the block has no byte at all
\*   "lit_ext"  the block ends inside a literal length
\*   "lit_over" the literal run is longer than the rest of the block
\*   "off_cut"  one byte follows the literal run where an offset is due
\*   "off_zero" the offset is 0
\*   "off_far"  the offset is larger than the output so far
\*   "len_ext"  the block ends inside a match length
\*   "match"    the block ends after a match
RECURSIVE BlockShape(_, _, _)
BlockShape(src, pos, emitted) ==
  IF pos >= Len(src)
    THEN [kind |-> IF pos = 0 THEN "empty" ELSE "match", emitted |-> emitted]
    ELSE
  LET token == src[pos + 1]
      lit == LengthField(src, pos + 1, token \div 16)
      after == lit.next + lit.len
      out == emitted + lit.len
  IN  IF ~lit.ok THEN [kind |-> "lit_ext", emitted |-> emitted]
      ELSE IF after > Len(src) THEN [kind |-> "lit_over", emitted |-> emitted]
      ELSE IF after = Len(src)
        THEN [kind |-> IF lit.len = 0 THEN "end0" ELSE "end", emitted |-> out]
      ELSE IF after + 2 > Len(src) THEN [kind |-> "off_cut", emitted |-> out]
      ELSE
  LET off == src[after + 1] + 256 * src[after + 2]
      mat == LengthField(src, after + 2, token % 16)
  IN  IF off = 0 THEN [kind |-> "off_zero", emitted |-> out]
      ELSE IF off > out THEN [kind |-> "off_far", emitted |-> out]
      ELSE IF ~mat.ok THEN [kind |-> "len_ext", emitted |-> out]
      ELSE BlockShape(src, mat.next, out + 4 + mat.len)

\* ------------------------------------------------------------------ Claims

\* The decoder's source is the whole buffer (src_len is not over the ceiling).
DecodedWhole == dec.src_len = Len(dec.src)

\* The shape of the block that the decoder was given.
DecShape == BlockShape(dec.src, 0, 0)

\* C1: for every source S, encoding S into a destination of at least the
\* worst-case length succeeds, and decoding the result into a destination of
\* at least |S| bytes succeeds, returns |S| and leaves S in the first |S|
\* bytes of the destination.
C1_RoundTrip ==
  /\ (enc.pc = "done" /\ enc.dst_len >= WorstCase(enc.src_len))
       => enc.status = NULL
  /\ dec.pc = "done"
       => /\ dec.status = NULL
          /\ dec.value = enc.src_len
          /\ SubSeq(dec.dst, 1, enc.src_len) = enc.src

\* C2: while decoding, every read of the source is below src_len, every
\* write to the destination is below its length, and every byte that a match
\* copy reads is one that this call has written.
C2_DecodeInBounds ==
  /\ dec.src_hi <= dec.src_len
  /\ dec.src_hi <= Len(dec.src)
  /\ dec.dst_hi <= Len(dec.dst)
  /\ dec.dst_hi <= dec.dst_pos
  /\ dec.copy_rd_ok

\* A match copy has read the last byte of the source and written the last
\* byte of the destination.
C2_Witness ==
  /\ dec.copied
  /\ dec.copy_off < dec.copy_len
  /\ dec.src_hi = dec.src_len /\ dec.src_len > 0
  /\ dec.dst_hi = Len(dec.dst)

\* C3: with a destination of at least |S| + |S|/255 + 16 bytes the encoder
\* succeeds, returns at most that many, and never stores a byte at or past
\* that index.
C3_WorstCaseBound ==
  LET w == enc.src_len + (enc.src_len \div 255) + 16
  IN  (enc.pc # "idle" /\ enc.src_len <= 2113929216 /\ enc.dst_len >= w)
        => /\ Len(enc.out) <= w
           /\ enc.token <= Len(enc.out)
           /\ enc.pc = "done" => (enc.status = NULL /\ enc.value = Len(enc.out))

\* The encoder has returned more bytes than it was given, for a source long
\* enough for |S|/255 to count and for a length to need two extension bytes.
C3_Witness ==
  /\ enc.pc = "done" /\ enc.status = NULL
  /\ enc.src_len >= 255
  /\ enc.value > enc.src_len + 2

\* C4: the sizing helper fails with src-too-long iff n > 0x7E000000 and
\* otherwise returns n + n/255 + 16; the encoder fails with src-too-long
\* when src_len > 0x7E000000 whatever dst_len is, and otherwise with
\* dst-too-short when dst_len is below the worst case; both failures return 0
\* and store nothing.
C4_AcceptanceRule ==
  LET n == enc.src_len
  IN  /\ siz.pc = "done" =>
           IF n > 2113929216
             THEN siz.status_message =
                    sflz4_status_message__error_src_is_too_long
             ELSE /\ siz.status_message = NULL
                  /\ siz.value = n + (n \div 255) + 16
      /\ (enc.pc \notin {"idle", "begin"} /\ n > 2113929216) =>
           /\ enc.pc = "done"
           /\ enc.status = sflz4_status_message__error_src_is_too_long
           /\ enc.value = 0 /\ enc.out = <<>>
      /\ (enc.pc \notin {"idle", "begin"} /\ n <= 2113929216) =>
           IF enc.dst_len < n + (n \div 255) + 16
             THEN /\ enc.pc = "done"
                  /\ enc.status = sflz4_status_message__error_dst_is_too_short
                  /\ enc.value = 0 /\ enc.out = <<>>
             ELSE enc.status = NULL /\ enc.pc # "done"

\* Both calls have been made with the longest length that is accepted, and
\* the encoder, whose destination is one byte short, has refused it.
C4_Witness ==
  /\ enc.src_len = 2113929216
  /\ siz.pc = "done" /\ siz.value = 2122219150
  /\ enc.dst_len = 2122219149
  /\ enc.pc = "done"

\* C5: when the source is exhausted right after the literal run of a
\* sequence, a run of length 0 included, the decoder succeeds and returns
\* the number of bytes written; encoding the empty input gives the byte
\* 0x00, and decoding that byte succeeds with 0 bytes written.
C5_EndOfBlock ==
  /\ (dec.pc = "done" /\ DecodedWhole /\ DecShape.kind \in {"end", "end0"}
        /\ Len(dec.dst) >= DecShape.emitted)
       => /\ dec.status = NULL
          /\ dec.value = DecShape.emitted
  /\ sflz4_block_encode(16, <<>>, 0).out = <<0>>
  /\ (dec.pc = "done" /\ dec.src = <<0>> /\ dec.src_len = 1)
       => (dec.status = NULL /\ dec.value = 0)

\* C6: provided the destination holds the output that precedes it, each of
\* these makes the decoder fail with invalid-data: an empty source, a source
\* that ends inside a literal length or a match length, a literal length
\* over the rest of the source (even when it is over the rest of the
\* destination too), one byte where an offset is due, an offset of 0 or over
\* the bytes emitted so far, and a source that ends after a match.
C6_StructuralRejections ==
  (dec.pc = "done" /\ DecodedWhole
     /\ DecShape.kind \in {"empty", "lit_ext", "len_ext", "lit_over",
                           "off_cut", "off_zero", "off_far", "match"}
     /\ Len(dec.dst) >= DecShape.emitted)
    => (dec.status = sflz4_status_message__error_invalid_data
        /\ dec.value = 0)

\* The decoder has refused a literal run that is longer than the rest of
\* the source and than the rest of the destination, after a match.
C6_Witness ==
  /\ dec.pc = "done" /\ DecodedWhole
  /\ DecShape.kind = "lit_over" /\ DecShape.emitted >= 5
  /\ dec.literal_len > Len(dec.dst) - dec.dst_pos
  /\ dec.status = sflz4_status_message__error_invalid_data

\* C7: a block that the decoder decodes to L bytes in some destination
\* decodes to the same L bytes in every destination of L bytes or more, and
\* fails with dst-too-short in every destination of fewer than L bytes.
C7_DstSizing ==
  (dec.pc = "done" /\ dec.status = NULL)
    => \A dst_len \in 0..Len(dec.dst) :
         LET r == sflz4_block_decode(InitialDst(dst_len), dec.src, dec.src_len)
         IN  IF dst_len >= dec.value
               THEN /\ r.status_message = NULL
                    /\ r.value = dec.value
                    /\ SubSeq(r.dst, 1, dec.value)
                         = SubSeq(dec.dst, 1, dec.value)
               ELSE r.status_message =
                      sflz4_status_message__error_dst_is_too_short

\* A block with a match has been decoded in a destination with room to
\* spare.
C7_Witness ==
  /\ dec.pc = "done" /\ dec.status = NULL
  /\ dec.value > dec.src_len
  /\ Len(dec.dst) > dec.value

\* The decoder has returned from the block 10 41 00 00 00.
ZeroOffsetBlockDone ==
  dec.pc = "done" /\ dec.src = <<16, 65, 0, 0, 0>> /\ dec.src_len = 5

\* C8 as stated: decoding 10 41 00 00 00 fails with invalid-data and leaves
\* every byte of the destination as it was, whatever the destination's
\* length.
C8_ZeroOffsetUntouched ==
  ZeroOffsetBlockDone
    => /\ dec.status = sflz4_status_message__error_invalid_data
       /\ dec.dst = InitialDst(Len(dec.dst))

\* C8, amended: decoding 10 41 00 00 00 into a destination of one byte or
\* more fails with invalid-data and the value 0, after storing the literal
\* 0x41 in the first byte and nothing else; into an empty destination it
\* fails with dst-too-short and the value 0.
C8_ZeroOffsetBlock ==
  ZeroOffsetBlockDone
    => IF Len(dec.dst) = 0
         THEN /\ dec.status = sflz4_status_message__error_dst_is_too_short
              /\ dec.value = 0
         ELSE /\ dec.status = sflz4_status_message__error_invalid_data
              /\ dec.value = 0
              /\ dec.dst = <<65>> \o InitialDst(Len(dec.dst) - 1)

\* The block has been refused in a destination that could hold a match.
C8_Witness == ZeroOffsetBlockDone /\ Len(dec.dst) >= 5

\* C9: after a match copy of m bytes with offset o at position d, byte d + i
\* equals byte d + i - o for every i below m, also when o < m; with o = 1
\* the m bytes all equal byte d - 1.
C9_OverlapCopy ==
  dec.copied
    => /\ 1 <= dec.copy_off /\ dec.copy_off <= dec.copy_at
       /\ dec.dst_pos = dec.copy_at + dec.copy_len
       /\ \A i \in 0..(dec.copy_len - 1) :
            dec.dst[dec.copy_at + i + 1]
              = dec.dst[dec.copy_at + i - dec.copy_off + 1]
       /\ dec.copy_off = 1
            => \A i \in 0..(dec.copy_len - 1) :
                 dec.dst[dec.copy_at + i + 1] = dec.dst[dec.copy_at]

\* A match of more than two bytes with offset 2 has repeated two bytes that
\* differ.
C9_Witness ==
  /\ dec.copied
  /\ dec.copy_off = 2 /\ dec.copy_len > 2
  /\ dec.dst[dec.copy_at - 1] # dec.dst[dec.copy_at]

\* C10: for a source of 12 bytes or fewer, whatever its bytes, the encoder
\* returns |S| + 1 bytes: the token |S| << 4, then the bytes of S.
C10_ShortInput ==
  (enc.pc = "done" /\ enc.src_len <= 12
     /\ enc.dst_len >= enc.src_len + (enc.src_len \div 255) + 16)
    => /\ enc.status = NULL
       /\ enc.value = enc.src_len + 1
       /\ enc.out = <<16 * enc.src_len>> \o enc.src

\* Twelve equal bytes have been encoded.
C10_Witness ==
  /\ enc.pc = "done" /\ enc.status = NULL
  /\ enc.src = <<65, 65, 65, 65, 65, 65, 65, 65, 65, 65, 65, 65>>

\* One sequence of a block, read by the format's rules: s.matches gathers,
\* for each match, the literals before it and the output positions where
\* it starts and ends; s.final is the literal length of the sequence that
\* ends the block, and -1 when the block does not end with one.
SequenceStep(s) ==
  IF s.pos >= Len(s.src) THEN [s EXCEPT !.final = -1, !.done = TRUE]
  ELSE
  LET token == s.src[s.pos + 1]
      lit == LengthField(s.src, s.pos + 1, token \div 16)
      after == lit.next + lit.len
      start == s.emitted + lit.len
  IN  IF ~lit.ok \/ after > Len(s.src)
        THEN [s EXCEPT !.final = -1, !.done = TRUE]
      ELSE IF after = Len(s.src)
        THEN [s EXCEPT !.final = lit.len, !.done = TRUE]
      ELSE IF after + 2 > Len(s.src)
        THEN [s EXCEPT !.final = -1, !.done = TRUE]
      ELSE
  LET off == s.src[after + 1] + 256 * s.src[after + 2]
      mat == LengthField(s.src, after + 2, token % 16)
  IN  IF ~mat.ok THEN [s EXCEPT !.final = -1, !.done = TRUE]
      ELSE [s EXCEPT !.pos = mat.next, !.emitted = start + 4 + mat.len,
                     !.matches = @ \cup {[lit |-> lit.len, off |-> off,
                                          start |-> start,
                                          end |-> start + 4 + mat.len]}]

\* The sequences of the block that the encoder has returned.
EncodedSequences ==
  Repeat(SequenceStep,
         [src |-> enc.out, pos |-> 0, emitted |-> 0, matches |-> {},
          final |-> 0, done |-> FALSE],
         Len(enc.out) + 1)

\* C11: for a source of more than 12 bytes, every match that the encoder
\* emits, found by the search (after the backward extension) or by
\* chaining, starts at a position of at most src_len - 12 and ends, 4 bytes
\* and its extension later, at a position of at most src_len - 5, so the
\* final sequence has 5 literal bytes or more.
C11_EncoderEndOfBlock ==
  (enc.src_len > 12
     /\ enc.dst_len >= enc.src_len + (enc.src_len \div 255) + 16)
    => /\ enc.pc = "match"
            => (enc.match < enc.sp /\ enc.sp <= enc.src_len - 12)
       /\ enc.pc \in {"search", "match", "final", "done"}
            => enc.literal_start <= enc.src_len - 5
       /\ enc.pc = "done"
            => /\ EncodedSequences.final >= 5
               /\ EncodedSequences.final = enc.src_len - enc.literal_start
               /\ \A m \in EncodedSequences.matches :
                    /\ m.start <= enc.src_len - 12
                    /\ m.start + 4 <= m.end
                    /\ m.end <= enc.src_len - 5

\* The encoder has returned a block in which a match follows another with
\* no literal between them, a match starts at src_len - 12, and a match ends
\* at src_len - 5.
C11_Witness ==
  /\ enc.pc = "done" /\ enc.status = NULL /\ enc.src_len > 12
  /\ \E m \in EncodedSequences.matches : m.lit = 0 /\ m.start > 0
  /\ \E m \in EncodedSequences.matches : m.start = enc.src_len - 12
  /\ \E m \in EncodedSequences.matches : m.end = enc.src_len - 5

====
